---- MODULE Spec2Model ----
(***************************************************************************)
(* A model of bot.py: the Gate Dual Investment + futures hedge bot.        *)
(*                                                                         *)
(* Text is modelled as a sequence of one-character strings, JSON fields    *)
(* as tagged values, Python floats as exact rationals plus nan and inf.    *)
(* The module holds several specifications over one set of variables:      *)
(*   Spec        one run of main()                                         *)
(*   SpecConc    two runs of main() against the same account and clock     *)
(*   SpecSelect  find_best_eth_dual_one_day on bounded offer lists         *)
(*   SpecSize    calc_contract_size_from_usdt on bounded inputs            *)
(*   SpecWait    wait_for_dual_settlement against a remote order list      *)
(***************************************************************************)
EXTENDS Integers, Sequences, FiniteSets, TLC

VARIABLES
  \* main(): the runs started, each run's position, prompt answers and locals,
  \* the loaded configuration, the remote listings, the wall clock and the POST requests sent
  runs, pc, input, cfg, remote, local, clock, posts,
  \* find_best_eth_dual_one_day: the fetched list, int(time.time()), the result,
  \* and the result of a second call on the same list
  sel_pc, sel_plans, sel_now, sel_best, sel_again,
  \* calc_contract_size_from_usdt: the arguments and the result
  sz_pc, sz_notional, sz_info, sz_mark, sz_size,
  \* wait_for_dual_settlement: the argument, the locals, and what was observed
  w_pc, w_order_text, w_orders, w_target, w_polls, w_sleeps, w_seen

mainVars == <<runs, pc, input, cfg, remote, local, clock, posts>>
selVars == <<sel_pc, sel_plans, sel_now, sel_best, sel_again>>
sizeVars == <<sz_pc, sz_notional, sz_info, sz_mark, sz_size>>
waitVars == <<w_pc, w_order_text, w_orders, w_target, w_polls, w_sleeps, w_seen>>
vars == <<mainVars, selVars, sizeVars, waitVars>>

(***************************** bounds **************************************)
\* longest offer list drawn for the selector
MaxPlans == 2
\* polls after which the remote is no longer queried in the model
MaxPolls == 4
\* longest remote order list returned to one poll
MaxOrders == 2
\* the clock stops advancing after this many ticks
MaxClock == 3
\* clock ticks per second: time.time() is finer than the int() taken of it
TicksPerSec == 2

(***************************** text ****************************************)
DigitChars == <<"0", "1", "2", "3", "4", "5", "6", "7", "8", "9">>

IsDigit(c) == \E i \in 1..10 : DigitChars[i] = c

DigitVal(c) == (CHOOSE i \in 1..10 : DigitChars[i] = c) - 1

RECURSIVE NatStr(_)
NatStr(n) == IF n < 10 THEN <<DigitChars[n + 1]>>
             ELSE NatStr(n \div 10) \o <<DigitChars[(n % 10) + 1]>>

\* str(n) of a Python int
PyStrInt(n) == IF n < 0 THEN <<"-">> \o NatStr(-n) ELSE NatStr(n)

UpperChars == <<"A", "D", "E", "F", "I", "N", "O", "S", "T", "Y">>
LowerChars == <<"a", "d", "e", "f", "i", "n", "o", "s", "t", "y">>

\* str.lower() on one character of the model's alphabet
LowerChar(c) == IF \E i \in 1..Len(UpperChars) : UpperChars[i] = c
                THEN LowerChars[CHOOSE i \in 1..Len(UpperChars) : UpperChars[i] = c]
                ELSE c

PyLower(s) == [i \in 1..Len(s) |-> LowerChar(s[i])]

IsSpace(c) == c = " "

RECURSIVE LStrip(_)
LStrip(s) == IF s # <<>> /\ IsSpace(Head(s)) THEN LStrip(Tail(s)) ELSE s

RECURSIVE RStrip(_)
RStrip(s) == IF s # <<>> /\ IsSpace(s[Len(s)])
             THEN RStrip(SubSeq(s, 1, Len(s) - 1)) ELSE s

\* str.strip()
PyStrip(s) == RStrip(LStrip(s))

(***************************** JSON values *********************************)
\* a field of a decoded JSON object: a string, null, or not there at all
JStr(s) == [t |-> "str", s |-> s]
JNull == [t |-> "null", s |-> <<>>]
JAbsent == [t |-> "absent", s |-> <<>>]

\* dict.get(key, default)
DictGet(v, default) == IF v.t = "absent" THEN default ELSE v

(***************************** floats **************************************)
Fin(n, d) == [k |-> "fin", n |-> n, d |-> d]
NaN == [k |-> "nan", n |-> 0, d |-> 1]
Inf(sgn) == [k |-> "inf", n |-> sgn, d |-> 1]

RECURSIVE Pow10(_)
Pow10(e) == IF e = 0 THEN 1 ELSE 10 * Pow10(e - 1)

RECURSIVE DigitsVal(_)
DigitsVal(s) == IF s = <<>> THEN 0
                ELSE 10 * DigitsVal(SubSeq(s, 1, Len(s) - 1)) + DigitVal(s[Len(s)])

Raised(exc) == [exc |-> exc, val |-> NaN]
Value(v) == [exc |-> "none", val |-> v]

\* the parts of a float literal: whether it starts with a sign, its sign, and
\* the text after the sign
IsSigned(t) == t # <<>> /\ t[1] \in {"+", "-"}
SignOf(t) == IF IsSigned(t) /\ t[1] = "-" THEN -1 ELSE 1
Unsigned(t) == IF IsSigned(t) THEN Tail(t) ELSE t

DotsOf(b) == {i \in 1..Len(b) : b[i] = "."}
DotAt(b) == IF DotsOf(b) = {} THEN Len(b) + 1 ELSE CHOOSE i \in DotsOf(b) : TRUE
IntPart(b) == SubSeq(b, 1, DotAt(b) - 1)
FracPart(b) == SubSeq(b, DotAt(b) + 1, Len(b))
AllDigits(s) == \A i \in 1..Len(s) : IsDigit(s[i])

\* digits with at most one point and at least one digit, of sign sgn
DecimalOf(b, sgn) ==
  IF /\ Cardinality(DotsOf(b)) <= 1
     /\ Len(IntPart(b)) + Len(FracPart(b)) >= 1
     /\ AllDigits(IntPart(b))
     /\ AllDigits(FracPart(b))
  THEN Value(Fin(sgn * DigitsVal(IntPart(b) \o FracPart(b)), Pow10(Len(FracPart(b)))))
  ELSE Raised("ValueError")

\* the literal after its sign: nan, inf, infinity (any case) or a decimal
SignedOf(b, sgn) ==
  IF PyLower(b) = <<"n", "a", "n">> THEN Value(NaN)
  ELSE IF PyLower(b) \in {<<"i", "n", "f">>, <<"i", "n", "f", "i", "n", "i", "t", "y">>}
  THEN Value(Inf(sgn))
  ELSE DecimalOf(b, sgn)

\* float(s) of a string: optional surrounding blanks, an optional sign, then
\* nan, inf, infinity or a decimal. Exponents and digit-group underscores are
\* not in the alphabet of the model.
FloatOfStr(s) == SignedOf(Unsigned(PyStrip(s)), SignOf(PyStrip(s)))

\* float(v) of a decoded JSON value: a string is parsed, None is a TypeError
PyFloat(v) == IF v.t = "str" THEN FloatOfStr(v.s) ELSE Raised("TypeError")

\* a > b on floats; every comparison with nan is false
FloatGt(a, b) ==
  IF a.k = "nan" \/ b.k = "nan" THEN FALSE
  ELSE IF a.k = "inf" THEN a.n = 1 /\ ~(b.k = "inf" /\ b.n = 1)
  ELSE IF b.k = "inf" THEN b.n = -1
  ELSE a.n * b.d > b.n * a.d

\* a / b on floats
FloatDiv(a, b) ==
  IF b.k = "fin" /\ b.n = 0 THEN Raised("ZeroDivisionError")
  ELSE IF a.k = "nan" \/ b.k = "nan" THEN Value(NaN)
  ELSE IF a.k = "inf"
  THEN IF b.k = "inf" THEN Value(NaN)
       ELSE Value(Inf(IF b.n < 0 THEN -a.n ELSE a.n))
  ELSE IF b.k = "inf" THEN Value(Fin(0, 1))
  ELSE IF b.n < 0 THEN Value(Fin(-(a.n * b.d), a.d * (-b.n)))
  ELSE Value(Fin(a.n * b.d, a.d * b.n))

\* a * b on floats (finite operands and the propagation of nan and inf)
FloatMul(a, b) ==
  IF a.k = "nan" \/ b.k = "nan" THEN NaN
  ELSE IF a.k = "inf" \/ b.k = "inf"
  THEN IF a.n = 0 \/ b.n = 0 THEN NaN
       ELSE Inf(IF (a.n < 0) = (b.n < 0) THEN 1 ELSE -1)
  ELSE Fin(a.n * b.n, a.d * b.d)

\* int(round(x)): round half to even; nan and inf cannot be rounded
PyIntRound(x) ==
  IF x.k = "nan" THEN [exc |-> "ValueError", size |-> 0]
  ELSE IF x.k = "inf" THEN [exc |-> "OverflowError", size |-> 0]
  ELSE LET q == x.n \div x.d
           r == x.n - q * x.d
       IN  [exc |-> "none",
            size |-> IF 2 * r < x.d THEN q
                     ELSE IF 2 * r > x.d THEN q + 1
                     ELSE IF q % 2 = 0 THEN q ELSE q + 1]

(***************************** offers ***************************************)
one_day_sec == 24 * 60 * 60

\* a faulty window test: the upper end is left out
DeliveryInWindow_noUpper(delivery, now) == one_day_sec <= 2 * (delivery - now)

\* 0.5 * one_day_sec <= delivery - now <= 2.0 * one_day_sec
DeliveryInWindow(delivery, now) ==
  /\ one_day_sec <= 2 * (delivery - now)
  /\ delivery - now <= 2 * one_day_sec

\* a faulty filter: an offer the selector has already given an _apy is skipped
PassesFieldFilter_fresh(p) ==
  /\ p.invest_currency = "USDT"
  /\ p.exercise_currency = "ETH"
  /\ p.type = "put"
  /\ p.status = "ONGOING"
  /\ ~p.has_apy

\* the four equality tests that come before the delivery test
PassesFieldFilter(p) ==
  /\ p.invest_currency = "USDT"
  /\ p.exercise_currency = "ETH"
  /\ p.type = "put"
  /\ p.status = "ONGOING"

\* float(p.get("apy_display", "0")) with ValueError, and only ValueError, caught
ApyOf(p) ==
  LET f == PyFloat(DictGet(p.apy_display, JStr(<<"0">>)))
  IN  IF f.exc = "ValueError" THEN Value(Fin(0, 1)) ELSE f

\* the loop over plans from index i on: cands collects the indices appended to
\* candidates, ps is the list with _apy stored in the offers processed so far;
\* an exception other than ValueError leaves the loop at once
RECURSIVE ScanPlans(_, _, _, _)
ScanPlans(ps, now, i, cands) ==
  IF i > Len(ps) THEN [exc |-> "none", cands |-> cands, plans |-> ps]
  ELSE IF ~PassesFieldFilter(ps[i]) THEN ScanPlans(ps, now, i + 1, cands)
  ELSE IF ~DeliveryInWindow(ps[i].delivery_time, now)
  THEN ScanPlans(ps, now, i + 1, cands)
  ELSE LET f == ApyOf(ps[i])
       IN  IF f.exc # "none" THEN [exc |-> f.exc, cands |-> cands, plans |-> ps]
           ELSE ScanPlans([ps EXCEPT ![i]._apy = f.val, ![i].has_apy = TRUE], now, i + 1,
                          Append(cands, i))

\* max(candidates, key=lambda x: x["_apy"]): the first candidate is kept until
\* a later one compares greater
RECURSIVE MaxByApy(_, _, _, _)
MaxByApy(ps, cands, j, best) ==
  IF j > Len(cands) THEN best
  ELSE MaxByApy(ps, cands, j + 1,
                IF FloatGt(ps[cands[j]]._apy, ps[best]._apy) THEN cands[j]
                ELSE best)

\* find_best_eth_dual_one_day once the offer list is fetched: best is the
\* index of the returned offer in the list (0 when the call raised)
find_best_eth_dual_one_day(ps, now) ==
  LET sc == ScanPlans(ps, now, 1, <<>>)
  IN  IF sc.exc # "none" THEN [exc |-> sc.exc, best |-> 0, plans |-> sc.plans]
      ELSE IF sc.cands = <<>>
      THEN [exc |-> "RuntimeError", best |-> 0, plans |-> sc.plans]
      ELSE [exc |-> "none",
            best |-> MaxByApy(sc.plans, sc.cands, 2, sc.cands[1]),
            plans |-> sc.plans]

(***************************** the offer selector alone *********************)
\* an offer as GET /earn/dual/investment_plan lists it
Offer(ic, ec, ty, st, dt, apy) ==
  [id |-> 0, invest_currency |-> ic, exercise_currency |-> ec, type |-> ty,
   status |-> st, delivery_time |-> dt, exercise_price |-> JStr(<<"3", "0", "0", "0">>),
   apy_display |-> apy, _apy |-> NaN, has_apy |-> FALSE]

Str85 == JStr(<<"8", ".", "5">>)
Str92 == JStr(<<"9", ".", "2">>)
StrAbc == JStr(<<"a", "b", "c">>)
StrNan == JStr(<<"n", "a", "n">>)

Yields == {JAbsent, JNull, Str85, Str92, StrAbc, StrNan}

\* delivery times on both sides of both ends of the window
Deliveries == {one_day_sec \div 2 - 1, one_day_sec \div 2, one_day_sec \div 2 + 1,
               2 * one_day_sec, 2 * one_day_sec + 1}

\* every offer that passes the four equality tests, and four that fail one each
Offers ==
  {Offer("USDT", "ETH", "put", "ONGOING", dt, y) : dt \in Deliveries, y \in Yields}
  \cup {Offer("BTC", "ETH", "put", "ONGOING", one_day_sec, Str92),
        Offer("USDT", "BTC", "put", "ONGOING", one_day_sec, Str92),
        Offer("USDT", "ETH", "call", "ONGOING", one_day_sec, Str92),
        Offer("USDT", "ETH", "put", "DONE", one_day_sec, Str92)}

\* a list of offers with each offer's id its place in the list
Numbered(f) == [i \in 1..Len(f) |-> [f[i] EXCEPT !.id = i]]

MainIdle ==
  /\ runs = {} /\ pc = <<>> /\ input = <<>> /\ local = <<>>
  /\ cfg = <<>> /\ remote = <<>> /\ clock = 0 /\ posts = <<>>

SelIdle ==
  /\ sel_pc = "idle" /\ sel_plans = <<>> /\ sel_now = 0 /\ sel_best = 0
  /\ sel_again = <<>>

SizeIdle ==
  /\ sz_pc = "idle" /\ sz_notional = NaN /\ sz_info = JAbsent
  /\ sz_mark = NaN /\ sz_size = 0

WaitIdle ==
  /\ w_pc = "idle" /\ w_order_text = JAbsent /\ w_orders = <<>>
  /\ w_target = <<>> /\ w_polls = 0 /\ w_sleeps = 0 /\ w_seen = <<>>

InitSelect ==
  /\ MainIdle /\ SizeIdle /\ WaitIdle
  /\ sel_pc = "call"
  /\ \E m \in 0..MaxPlans : \E f \in [1..m -> Offers] : sel_plans = Numbered(f)
  /\ sel_now \in 0..1
  /\ sel_best = 0
  /\ sel_again = <<>>

\* one call of the selector on the fetched list, at time sel_now
SelectCall ==
  /\ sel_pc = "call"
  /\ LET res == find_best_eth_dual_one_day(sel_plans, sel_now)
     IN  /\ sel_plans' = res.plans
         /\ sel_best' = res.best
         /\ sel_pc' = IF res.exc = "none" THEN "returned" ELSE res.exc
  /\ UNCHANGED <<sel_now, sel_again, mainVars, sizeVars, waitVars>>

\* a second call of the selector on the list the first call returned from, at
\* the same time sel_now; the records carry the _apy the first call wrote
SelectAgain ==
  /\ sel_pc = "returned"
  /\ sel_again = <<>>
  /\ LET res == find_best_eth_dual_one_day(sel_plans, sel_now)
     IN  /\ sel_plans' = res.plans
         /\ sel_again' = <<[exc |-> res.exc, best |-> res.best]>>
  /\ UNCHANGED <<sel_pc, sel_now, sel_best, mainVars, sizeVars, waitVars>>

NextSelect ==
  \/ SelectCall
  \/ SelectAgain

SpecSelect == InitSelect /\ [][NextSelect]_vars

(***************************** the hedge sizer alone ************************)
\* a faulty notional: the amount is scaled by the exercise price as well
calc_hedge_size_usdt_priced(amount_dual_usdt, hedge_multiplier, exercise_price) ==
  FloatMul(FloatMul(amount_dual_usdt, hedge_multiplier), exercise_price)

\* calc_hedge_size_usdt: the exercise price is not used
calc_hedge_size_usdt(amount_dual_usdt, hedge_multiplier, exercise_price) ==
  FloatMul(amount_dual_usdt, hedge_multiplier)

\* the multiplier read from the contract metadata: 1.0 unless the key is there;
\* a ValueError of float() falls back to 1.0, anything else it raises goes on
QuantoMultiplier(contract_info) ==
  IF contract_info.quanto_multiplier.t = "absent" THEN Value(Fin(1, 1))
  ELSE IF PyFloat(contract_info.quanto_multiplier).exc = "ValueError"
  THEN Value(Fin(1, 1))
  ELSE PyFloat(contract_info.quanto_multiplier)

\* size == 0 is replaced by 1
ClampZero(size) == IF size = 0 THEN 1 ELSE size

\* int(round(notional_usdt / multiplier)) clamped, or the exception of the division
\* or of the rounding
SizeFrom(notional_usdt, m) ==
  IF FloatDiv(notional_usdt, m).exc # "none"
  THEN [exc |-> FloatDiv(notional_usdt, m).exc, size |-> 0]
  ELSE IF PyIntRound(FloatDiv(notional_usdt, m).val).exc # "none"
  THEN PyIntRound(FloatDiv(notional_usdt, m).val)
  ELSE [exc |-> "none",
        size |-> ClampZero(PyIntRound(FloatDiv(notional_usdt, m).val).size)]

calc_contract_size_from_usdt(notional_usdt, contract_info, mark_price) ==
  IF QuantoMultiplier(contract_info).exc # "none"
  THEN [exc |-> QuantoMultiplier(contract_info).exc, size |-> 0]
  ELSE SizeFrom(notional_usdt, QuantoMultiplier(contract_info).val)

\* contract metadata as GET /futures/{settle}/contracts lists it
Contract(name, qm) == [name |-> name, quanto_multiplier |-> qm]

Str1 == JStr(<<"1">>)
Str10 == JStr(<<"1", "0", ".", "0">>)
Str001 == JStr(<<"0", ".", "0", "1">>)
Str0 == JStr(<<"0">>)

QuantoFields == {JAbsent, JNull, Str1, Str10, Str001, Str0, StrAbc, StrNan}

\* notionals around the rounding ties and the clamp, in tenths
NotionalTenths == {-30, -15, -4, 0, 4, 5, 6, 14, 15, 16, 25, 2500, 10000}

MarkPrices == {Fin(1, 1), Fin(3000, 1)}

InitSize ==
  /\ MainIdle /\ SelIdle /\ WaitIdle
  /\ sz_pc = "call"
  /\ sz_notional \in {Fin(t, 10) : t \in NotionalTenths}
  /\ sz_info \in {Contract("ETH_USDT", q) : q \in QuantoFields}
  /\ sz_mark \in MarkPrices
  /\ sz_size = 0

\* one call of the sizer
SizeCall ==
  /\ sz_pc = "call"
  /\ sz_size' = calc_contract_size_from_usdt(sz_notional, sz_info, sz_mark).size
  /\ sz_pc' = IF calc_contract_size_from_usdt(sz_notional, sz_info, sz_mark).exc = "none"
              THEN "returned"
              ELSE calc_contract_size_from_usdt(sz_notional, sz_info, sz_mark).exc
  /\ UNCHANGED <<sz_notional, sz_info, sz_mark, mainVars, selVars, waitVars>>

NextSize == SizeCall

SpecSize == InitSize /\ [][NextSize]_vars

(***************************** the settlement monitor alone *****************)
DualHedgePrefix == <<"d", "u", "a", "l", "-", "h", "e", "d", "g", "e", "-">>

\* f"dual-hedge-{n}"
TagOf(n) == JStr(DualHedgePrefix \o PyStrInt(n))

\* an order record as GET /earn/dual/orders lists it
Order(text, status) == [text |-> text, status |-> status]

\* the orders the remote may list: the caller's own order in three statuses,
\* and a settled order that carries another tag
RemoteOrders(tag) ==
  {Order(tag, "SETTLEMENT_PROCESSING"), Order(tag, "SETTLEMENT_SUCCESS"),
   Order(tag, "FAILED"), Order(TagOf(7), "SETTLEMENT_SUCCESS")}

RemoteOrderLists(tag) == UNION {[1..m -> RemoteOrders(tag)] : m \in 0..MaxOrders}

\* a faulty lookup: the first order listed, whatever its text
FindTarget_any(os, order_text, i) == IF os = <<>> THEN <<>> ELSE <<os[1]>>

\* for o in orders: if o.get("text") == order_text: target = o; break
\* (None is the empty sequence, a found order a sequence of one)
RECURSIVE FindTarget(_, _, _)
FindTarget(os, order_text, i) ==
  IF i > Len(os) THEN <<>>
  ELSE IF os[i].text = order_text THEN <<os[i]>>
  ELSE FindTarget(os, order_text, i + 1)

\* a faulty test: any order found ends the loop, whatever its status
IsSettled_found(target) == target # <<>>

\* a faulty test: any terminal status of the order found ends the loop
IsSettled_terminal(target) ==
  target # <<>> /\ target[1].status \in {"SETTLEMENT_SUCCESS", "FAILED"}

\* the test that ends the loop
IsSettled(target) == target # <<>> /\ target[1].status = "SETTLEMENT_SUCCESS"

\* what one response shows of the orders carrying the tag: how many there
\* are, and whether one of them is settled
Shown(os, order_text) ==
  [n |-> Cardinality({i \in 1..Len(os) : os[i].text = order_text}),
   settled |-> \E i \in 1..Len(os) :
                 os[i].text = order_text /\ os[i].status = "SETTLEMENT_SUCCESS"]

InitWait ==
  /\ MainIdle /\ SelIdle /\ SizeIdle
  /\ w_pc = "poll"
  /\ w_order_text = TagOf(0)
  /\ w_orders = <<>> /\ w_target = <<>>
  /\ w_polls = 0 /\ w_sleeps = 0 /\ w_seen = <<>>

\* one pass of the loop body up to the return or the sleep: the GET fails
\* (raise_for_status, a timeout) or answers with a list of orders
WaitPoll ==
  /\ w_pc = "poll"
  /\ w_polls < MaxPolls
  /\ w_polls' = w_polls + 1
  /\ \/ /\ w_pc' = "TransportError"
        /\ UNCHANGED <<w_orders, w_target, w_seen>>
     \/ \E os \in RemoteOrderLists(w_order_text) :
          /\ w_orders' = os
          /\ w_target' = FindTarget(os, w_order_text, 1)
          /\ w_seen' = Append(w_seen, Shown(os, w_order_text))
          /\ w_pc' = IF IsSettled(FindTarget(os, w_order_text, 1))
                     THEN "returned" ELSE "sleep"
  /\ UNCHANGED <<w_order_text, w_sleeps, mainVars, selVars, sizeVars>>

\* time.sleep(poll_interval), then the next pass
WaitSleep ==
  /\ w_pc = "sleep"
  /\ w_sleeps' = w_sleeps + 1
  /\ w_pc' = "poll"
  /\ UNCHANGED <<w_order_text, w_orders, w_target, w_polls, w_seen,
                 mainVars, selVars, sizeVars>>

NextWait == WaitPoll \/ WaitSleep

SpecWait == InitWait /\ [][NextWait]_vars

(***************************** main() ***************************************)
\* the fraction digits of m / 10^k, without trailing zeros
RECURSIVE FracStr(_, _)
FracStr(m, k) ==
  IF k = 0 \/ m = 0 THEN <<>>
  ELSE <<DigitChars[(m \div Pow10(k - 1)) + 1]>> \o FracStr(m % Pow10(k - 1), k - 1)

RECURSIVE Log10(_)
Log10(d) == IF d <= 1 THEN 0 ELSE 1 + Log10(d \div 10)

Abs(n) == IF n < 0 THEN -n ELSE n

\* str(x) of a float whose denominator is a power of ten: "1000.0", "0.4", "-5.0"
PyStrFloat(x) ==
  IF x.k = "nan" THEN <<"n", "a", "n">>
  ELSE IF x.k = "inf" THEN (IF x.n < 0 THEN <<"-">> ELSE <<>>) \o <<"i", "n", "f">>
  ELSE (IF x.n < 0 THEN <<"-">> ELSE <<>>)
       \o NatStr(Abs(x.n) \div x.d) \o <<".">>
       \o (IF Abs(x.n) % x.d = 0 THEN <<"0">>
           ELSE FracStr(Abs(x.n) % x.d, Log10(x.d)))

\* int(time.time())
PyIntTime == clock \div TicksPerSec

Yes == <<"y", "e", "s">>

\* the locals of main() before any is bound; plan, contract_info and confirm
\* are the empty sequence while unbound and a sequence of one once bound
NoLocals ==
  [amount_usdt |-> NaN, plan |-> <<>>, hedge_notional |-> NaN,
   contract_info |-> <<>>, contract_size |-> 0, confirm |-> <<>>,
   custom_text |-> JAbsent]

\* line 259: float(input(...).strip())
main_input_amount(r) ==
  /\ pc[r] = "input_amount"
  /\ IF PyFloat(JStr(PyStrip(input[r].amount))).exc # "none"
     THEN /\ pc' = [pc EXCEPT ![r] = PyFloat(JStr(PyStrip(input[r].amount))).exc]
          /\ UNCHANGED local
     ELSE /\ pc' = [pc EXCEPT ![r] = "find_plan"]
          /\ local' = [local EXCEPT ![r].amount_usdt =
                         PyFloat(JStr(PyStrip(input[r].amount))).val]
  /\ UNCHANGED <<runs, input, cfg, remote, clock, posts, selVars, sizeVars, waitVars>>

\* lines 263-264: float(plan["exercise_price"]), float(plan.get("apy_display", "0")),
\* neither in a try; the first exception raised, or "none"
PlanParseExc(p) ==
  IF PyFloat(p.exercise_price).exc # "none" THEN PyFloat(p.exercise_price).exc
  ELSE PyFloat(DictGet(p.apy_display, JStr(<<"0">>))).exc

\* lines 262-276: the offers are fetched and one is selected, its fields are
\* parsed for display, the hedge notional is computed
main_find_plan(r) ==
  /\ pc[r] = "find_plan"
  /\ \/ /\ pc' = [pc EXCEPT ![r] = "TransportError"]
        /\ UNCHANGED local
     \/ /\ find_best_eth_dual_one_day(remote.plans, PyIntTime).exc # "none"
        /\ pc' = [pc EXCEPT ![r] = find_best_eth_dual_one_day(remote.plans, PyIntTime).exc]
        /\ UNCHANGED local
     \/ /\ find_best_eth_dual_one_day(remote.plans, PyIntTime).exc = "none"
        /\ \E res \in {find_best_eth_dual_one_day(remote.plans, PyIntTime)} :
             /\ local' = [local EXCEPT
                  ![r].plan = <<res.plans[res.best]>>,
                  ![r].hedge_notional =
                     IF PlanParseExc(res.plans[res.best]) # "none" THEN NaN
                     ELSE calc_hedge_size_usdt(local[r].amount_usdt, cfg.hedge_multiplier,
                                               PyFloat(res.plans[res.best].exercise_price).val)]
             /\ pc' = [pc EXCEPT ![r] =
                  IF PlanParseExc(res.plans[res.best]) # "none"
                  THEN PlanParseExc(res.plans[res.best]) ELSE "get_contract"]
  /\ UNCHANGED <<runs, input, cfg, remote, clock, posts, selVars, sizeVars, waitVars>>

\* a faulty lookup: the first contract listed, whatever its name
get_futures_contract_first(data, contract, i) ==
  IF data = <<>> THEN <<>> ELSE <<data[1]>>

\* get_futures_contract: the first listed contract of that name, as a sequence
\* of one, or the empty sequence when the loop ends without a match
RECURSIVE get_futures_contract(_, _, _)
get_futures_contract(data, contract, i) ==
  IF i > Len(data) THEN <<>>
  ELSE IF data[i].name = contract THEN <<data[i]>>
  ELSE get_futures_contract(data, contract, i + 1)

\* line 281
main_get_contract(r) ==
  /\ pc[r] = "get_contract"
  /\ \/ /\ pc' = [pc EXCEPT ![r] = "TransportError"]
        /\ UNCHANGED local
     \/ /\ get_futures_contract(remote.contracts, cfg.futures_contract, 1) = <<>>
        /\ pc' = [pc EXCEPT ![r] = "RuntimeError"]
        /\ UNCHANGED local
     \/ /\ get_futures_contract(remote.contracts, cfg.futures_contract, 1) # <<>>
        /\ local' = [local EXCEPT ![r].contract_info =
                       get_futures_contract(remote.contracts, cfg.futures_contract, 1)]
        /\ pc' = [pc EXCEPT ![r] = "get_ticker"]
  /\ UNCHANGED <<runs, input, cfg, remote, clock, posts, selVars, sizeVars, waitVars>>

\* lines 282-286: the ticker is fetched, its price parsed, the size computed
main_get_ticker(r) ==
  /\ pc[r] = "get_ticker"
  /\ \/ /\ pc' = [pc EXCEPT ![r] = "TransportError"]
        /\ UNCHANGED local
     \/ /\ PyFloat(remote.ticker.last).exc # "none"
        /\ pc' = [pc EXCEPT ![r] = PyFloat(remote.ticker.last).exc]
        /\ UNCHANGED local
     \/ /\ PyFloat(remote.ticker.last).exc = "none"
        /\ \E res \in {calc_contract_size_from_usdt(local[r].hedge_notional,
                          local[r].contract_info[1], PyFloat(remote.ticker.last).val)} :
             /\ local' = [local EXCEPT ![r].contract_size = res.size]
             /\ pc' = [pc EXCEPT ![r] = IF res.exc = "none" THEN "confirm" ELSE res.exc]
  /\ UNCHANGED <<runs, input, cfg, remote, clock, posts, selVars, sizeVars, waitVars>>

\* input(...).strip().lower()
Normalised(answer) == PyLower(PyStrip(answer))

\* a faulty gate: the answer is read and the run goes on whatever it is
main_confirm_always(r) ==
  /\ pc[r] = "confirm"
  /\ local' = [local EXCEPT ![r].confirm = <<Normalised(input[r].confirm)>>]
  /\ pc' = [pc EXCEPT ![r] = "custom_text"]
  /\ UNCHANGED <<runs, input, cfg, remote, clock, posts, selVars, sizeVars, waitVars>>

\* lines 288-291: anything but "yes" returns from main
main_confirm(r) ==
  /\ pc[r] = "confirm"
  /\ local' = [local EXCEPT ![r].confirm = <<Normalised(input[r].confirm)>>]
  /\ pc' = [pc EXCEPT ![r] = IF Normalised(input[r].confirm) # Yes
                             THEN "returned" ELSE "custom_text"]
  /\ UNCHANGED <<runs, input, cfg, remote, clock, posts, selVars, sizeVars, waitVars>>

\* line 293
main_custom_text(r) ==
  /\ pc[r] = "custom_text"
  /\ local' = [local EXCEPT ![r].custom_text = TagOf(PyIntTime)]
  /\ pc' = [pc EXCEPT ![r] = "place_dual"]
  /\ UNCHANGED <<runs, input, cfg, remote, clock, posts, selVars, sizeVars, waitVars>>

\* the body place_dual_order posts
DualOrderBody(plan, amount_usdt, custom_text) ==
  [plan_id |-> PyStrInt(plan.id), amount |-> PyStrFloat(amount_usdt), text |-> custom_text]

\* the body open_futures_short posts
HedgeText == JStr(DualHedgePrefix \o <<"s", "h", "o", "r", "t">>)

\* a faulty body: the size goes out with the sign it came in with
FuturesOrderBody_asGiven(contract, size) ==
  [contract |-> contract, size |-> size, iceberg |-> 0, tif |-> "ioc",
   text |-> HedgeText]

FuturesOrderBody(contract, size) ==
  [contract |-> contract, size |-> -Abs(size), iceberg |-> 0, tif |-> "ioc",
   text |-> HedgeText]

\* one POST request of run r as http_post sends it; ok tells whether
\* raise_for_status let it pass
Post(r, url, body, ok) == [run |-> r, url |-> url, body |-> body, ok |-> ok]

\* the POST of open_futures_short as a step of run r, leading to position next
PostFutures(r, next) ==
  \/ /\ posts' = Append(posts, Post(r, "/futures/orders",
                    FuturesOrderBody(cfg.futures_contract, local[r].contract_size),
                    FALSE))
     /\ pc' = [pc EXCEPT ![r] = "TransportError"]
  \/ /\ posts' = Append(posts, Post(r, "/futures/orders",
                    FuturesOrderBody(cfg.futures_contract, local[r].contract_size),
                    TRUE))
     /\ pc' = [pc EXCEPT ![r] = next]

\* a faulty POST of place_dual_order: a failed request does not end the run
PostDual_goesOn(r, next) ==
  /\ \E ok \in BOOLEAN :
       posts' = Append(posts, Post(r, "/earn/dual/orders",
                   DualOrderBody(local[r].plan[1], local[r].amount_usdt,
                                 local[r].custom_text), ok))
  /\ pc' = [pc EXCEPT ![r] = next]

\* the POST of place_dual_order as a step of run r, leading to position next
PostDual(r, next) ==
  \/ /\ posts' = Append(posts, Post(r, "/earn/dual/orders",
                    DualOrderBody(local[r].plan[1], local[r].amount_usdt,
                                  local[r].custom_text), FALSE))
     /\ pc' = [pc EXCEPT ![r] = "TransportError"]
  \/ /\ posts' = Append(posts, Post(r, "/earn/dual/orders",
                    DualOrderBody(local[r].plan[1], local[r].amount_usdt,
                                  local[r].custom_text), TRUE))
     /\ pc' = [pc EXCEPT ![r] = next]

\* a faulty step: the futures order is posted where the investment order
\* should be
main_place_dual_swapped(r) ==
  /\ pc[r] = "place_dual"
  /\ PostFutures(r, "open_short")
  /\ UNCHANGED <<runs, input, cfg, remote, local, clock, selVars, sizeVars, waitVars>>

\* line 296: place_dual_order; raise_for_status ends the run
main_place_dual(r) ==
  /\ pc[r] = "place_dual"
  /\ PostDual(r, "open_short")
  /\ UNCHANGED <<runs, input, cfg, remote, local, clock, selVars, sizeVars, waitVars>>

\* lines 299-303: open_futures_short, the closing messages, the return
main_open_short(r) ==
  /\ pc[r] = "open_short"
  /\ PostFutures(r, "returned")
  /\ UNCHANGED <<runs, input, cfg, remote, local, clock, selVars, sizeVars, waitVars>>

\* time passes
Tick ==
  /\ clock < MaxClock
  /\ clock' = clock + 1
  /\ UNCHANGED <<runs, pc, input, cfg, remote, local, posts, selVars, sizeVars, waitVars>>

(***************************** the runs of main() ***************************)
\* what the user may type at the two prompts
AmountAnswers == {<<"1", "0", "0", "0">>, <<"0", ".", "4">>, <<"-", "5">>, <<"a", "b", "c">>}

ConfirmAnswers == {Yes, <<" ", "Y", "E", "S", " ">>, <<"n", "o">>, <<"y">>, <<>>}

Str9 == JStr(<<"9">>)

\* an eligible offer delivered 23 hours after the epoch of the model's clock
Offer23h(apy) == Offer("USDT", "ETH", "put", "ONGOING", 23 * 60 * 60, apy)

\* what GET /earn/dual/investment_plan may list
RemotePlanLists ==
  {<<>>,
   <<[Offer23h(Str9) EXCEPT !.id = 1]>>,
   <<[Offer23h(StrAbc) EXCEPT !.id = 1]>>,
   <<[Offer23h(JNull) EXCEPT !.id = 1]>>,
   <<[Offer23h(Str85) EXCEPT !.id = 1], [Offer23h(Str92) EXCEPT !.id = 2]>>}

\* what GET /futures/usdt/contracts may list
RemoteContractLists ==
  {<<Contract("BTC_USDT", Str1)>>,
   <<Contract("BTC_USDT", Str1), Contract("ETH_USDT", JAbsent)>>,
   <<Contract("ETH_USDT", Str10)>>,
   <<Contract("ETH_USDT", StrAbc)>>}

Str3000 == JStr(<<"3", "0", "0", "0">>)

poll_interval_sec == 60

\* load_config: the defaults of lines 37-40 and the hedge multipliers a
\* config.json may set
Configs ==
  {[futures_settle |-> "usdt", futures_contract |-> "ETH_USDT", hedge_multiplier |-> m,
    poll_interval_sec |-> poll_interval_sec] : m \in {Fin(1, 1), Fin(5, 10), Fin(-1, 1)}}

\* one run of main(), right after load_config
Init ==
  /\ SelIdle /\ SizeIdle /\ WaitIdle
  /\ runs = {1}
  /\ pc = [r \in runs |-> "input_amount"]
  /\ input \in [runs -> [amount : AmountAnswers, confirm : ConfirmAnswers]]
  /\ cfg \in Configs
  /\ remote \in [plans : RemotePlanLists, contracts : RemoteContractLists,
                 ticker : {[last |-> Str3000]}]
  /\ local = [r \in runs |-> NoLocals]
  /\ clock = 0
  /\ posts = <<>>

\* two runs of main() started against the same account
InitConc ==
  /\ SelIdle /\ SizeIdle /\ WaitIdle
  /\ runs = {1, 2}
  /\ pc = [r \in runs |-> "input_amount"]
  /\ input \in [runs -> [amount : {<<"1", "0", "0", "0">>}, confirm : {Yes, <<"n", "o">>}]]
  /\ cfg \in {c \in Configs : c.hedge_multiplier = Fin(1, 1)}
  /\ remote = [plans |-> <<[Offer23h(Str9) EXCEPT !.id = 1]>>,
               contracts |-> <<Contract("ETH_USDT", JAbsent)>>,
               ticker |-> [last |-> Str3000]]
  /\ local = [r \in runs |-> NoLocals]
  /\ clock = 0
  /\ posts = <<>>

\* each step of main(), taken by some run
InputAmount == \E r \in runs : main_input_amount(r)
FindPlan == \E r \in runs : main_find_plan(r)
GetContract == \E r \in runs : main_get_contract(r)
GetTicker == \E r \in runs : main_get_ticker(r)
Confirm == \E r \in runs : main_confirm(r)
CustomText == \E r \in runs : main_custom_text(r)
PlaceDual == \E r \in runs : main_place_dual(r)
OpenShort == \E r \in runs : main_open_short(r)

Next ==
  \/ InputAmount
  \/ FindPlan
  \/ GetContract
  \/ GetTicker
  \/ Confirm
  \/ CustomText
  \/ PlaceDual
  \/ OpenShort
  \/ Tick

Spec == Init /\ [][Next]_vars

SpecConc == InitConc /\ [][Next]_vars

(***************************** claims ***************************************)
DualPosts(r) ==
  {i \in 1..Len(posts) : posts[i].run = r /\ posts[i].url = "/earn/dual/orders"}

HedgePosts(r) ==
  {i \in 1..Len(posts) : posts[i].run = r /\ posts[i].url = "/futures/orders"}

\* C1: every hedge order POST of a run comes after an investment order POST
\* of the same run in the record of POSTs.
C1_InvestmentBeforeHedge ==
  \A r \in runs : \A h \in HedgePosts(r) : \E d \in DualPosts(r) : d < h

\* a run has submitted both orders
C1_Witness == \E r \in runs : DualPosts(r) # {} /\ HedgePosts(r) # {}

\* C2: whenever the selector returns, the returned offer is one of the list,
\* invests USDT, exercises into ETH, is a put, is ONGOING, and is delivered no
\* less than half a day and no more than two days after now.
C2_ReturnedOfferPassesFilter ==
  sel_pc = "returned" =>
    /\ sel_best \in 1..Len(sel_plans)
    /\ sel_plans[sel_best].invest_currency = "USDT"
    /\ sel_plans[sel_best].exercise_currency = "ETH"
    /\ sel_plans[sel_best].type = "put"
    /\ sel_plans[sel_best].status = "ONGOING"
    /\ sel_plans[sel_best].delivery_time - sel_now >= 12 * 60 * 60
    /\ sel_plans[sel_best].delivery_time - sel_now <= 48 * 60 * 60

\* the selector returned an offer from a list that also holds an offer
\* delivered outside the window
C2_Witness ==
  /\ sel_pc = "returned"
  /\ \E i \in 1..Len(sel_plans) :
       \/ sel_plans[i].delivery_time - sel_now > 48 * 60 * 60
       \/ sel_plans[i].delivery_time - sel_now < 12 * 60 * 60

\* an offer passes the filter of the selector at time sel_now
C3_Eligible(p) ==
  /\ p.invest_currency = "USDT" /\ p.exercise_currency = "ETH"
  /\ p.type = "put" /\ p.status = "ONGOING"
  /\ p.delivery_time - sel_now >= 12 * 60 * 60
  /\ p.delivery_time - sel_now <= 48 * 60 * 60

\* the yield of an offer as the claim counts it: the number its yield field
\* spells, and 0 when the field is missing or spells no number
C3_Yield(p) ==
  IF p.apy_display.t = "str" /\ AllDigits(SelectSeq(p.apy_display.s, LAMBDA c : c # "."))
     /\ p.apy_display.s # <<>>
  THEN FloatOfStr(p.apy_display.s).val
  ELSE Fin(0, 1)

\* C3: when some offer of the list passes the filter, the selector returns an
\* eligible offer whose yield is at least the yield of every eligible offer,
\* an offer with a missing or non-numeric yield counting as yield 0.
C3_ReturnsLargestYield ==
  (sel_pc # "call" /\ \E i \in 1..Len(sel_plans) : C3_Eligible(sel_plans[i])) =>
    /\ sel_pc = "returned"
    /\ sel_best \in 1..Len(sel_plans)
    /\ C3_Eligible(sel_plans[sel_best])
    /\ \A i \in 1..Len(sel_plans) :
         C3_Eligible(sel_plans[i]) =>
           ~FloatGt(C3_Yield(sel_plans[i]), C3_Yield(sel_plans[sel_best]))

\* the user's answer makes the run go on: trimmed and lower-cased it is "yes"
C4_Accepts(answer) == PyLower(PyStrip(answer)) = Yes

\* C4 as stated: a run whose answer at the confirmation prompt is anything
\* but the text "yes" posts no order and, once past the prompt, has returned.
C4_AnyOtherAnswerDeclines ==
  \A r \in runs :
    input[r].confirm # Yes =>
      /\ DualPosts(r) = {} /\ HedgePosts(r) = {}
      /\ local[r].confirm # <<>> => pc[r] = "returned"

\* C4 as amended: a run whose answer, trimmed and lower-cased, is not "yes"
\* posts no order and, once past the prompt, has returned; and a run that
\* has posted an order answered "yes" (trimmed, lower-cased) after its offer
\* was selected and its contract size computed.
C4_DeclineNoOrders ==
  \A r \in runs :
    /\ ~C4_Accepts(input[r].confirm) =>
         /\ DualPosts(r) = {} /\ HedgePosts(r) = {}
         /\ local[r].confirm # <<>> => pc[r] = "returned"
    /\ (DualPosts(r) # {} \/ HedgePosts(r) # {}) =>
         /\ C4_Accepts(input[r].confirm)
         /\ local[r].confirm = <<Yes>>
         /\ local[r].plan # <<>>
         /\ local[r].contract_info # <<>>
         /\ local[r].contract_size # 0

\* a run was declined at the prompt and returned
C4_Witness ==
  \E r \in runs :
    /\ local[r].confirm # <<>>
    /\ ~C4_Accepts(input[r].confirm)
    /\ pc[r] = "returned"
    /\ posts = <<>>

\* C5: whenever wait_for_dual_settlement has returned, the record returned is
\* an order of the list the latest poll fetched, its text is the tag asked
\* for and its status is SETTLEMENT_SUCCESS.
C5_ReturnsOnlySettled ==
  w_pc = "returned" =>
    /\ Len(w_target) = 1
    /\ \E i \in 1..Len(w_orders) : w_orders[i] = w_target[1]
    /\ w_target[1].text = w_order_text
    /\ w_target[1].status = "SETTLEMENT_SUCCESS"

\* the monitor returned after polls that showed the order missing or not
\* settled, from a list that also holds another tag's order
C5_Witness ==
  /\ w_pc = "returned"
  /\ w_polls >= 3
  /\ \E i \in 1..Len(w_orders) : w_orders[i].text # w_order_text
  /\ \E j \in 1..Len(w_seen) : w_seen[j].n = 1 /\ ~w_seen[j].settled

\* the responses so far each list at most one order carrying the tag
C6_OneTaggedOrder == \A j \in 1..Len(w_seen) : w_seen[j].n <= 1

\* the places in the responses so far that show the tagged order settled
C6_SettledAt == {j \in 1..Len(w_seen) : w_seen[j].settled}

\* C6: with at most one order carrying the tag in each response: the monitor
\* has returned exactly when a response showed the order settled, that
\* response is the last one fetched, so the polls issued are as many as the
\* place k of the first settled response; no poll is issued without a
\* response or an error; and there has been one sleep after each poll but
\* the last one (k - 1 sleeps at the return), the next poll coming only after
\* the sleep.
C6_PollsUntilSettled ==
  C6_OneTaggedOrder =>
    /\ (w_pc = "returned") = (C6_SettledAt # {})
    /\ C6_SettledAt \subseteq {Len(w_seen)}
    /\ w_pc = "returned" => w_polls = Len(w_seen) /\ w_sleeps = w_polls - 1
    /\ w_pc = "sleep" => w_polls = Len(w_seen) /\ w_sleeps = w_polls - 1
    /\ w_pc = "poll" => w_polls = Len(w_seen) /\ w_sleeps = w_polls
    /\ w_pc = "TransportError" => w_polls = Len(w_seen) + 1 /\ w_sleeps = w_polls - 1

\* the responses not-found, pending, pending, settled, and the return after
\* four polls and three sleeps
C6_Witness ==
  /\ w_pc = "returned"
  /\ w_polls = 4 /\ w_sleeps = 3
  /\ Len(w_seen) = 4
  /\ w_seen[1].n = 0
  /\ w_seen[2].n = 1 /\ ~w_seen[2].settled
  /\ w_seen[3].n = 1 /\ ~w_seen[3].settled
  /\ w_seen[4].n = 1 /\ w_seen[4].settled

\* C7: in a run that has posted both orders, the text of the hedge order is
\* the text of the investment order.
C7_SharedCorrelationTag ==
  \A r \in runs : \A d \in DualPosts(r) : \A h \in HedgePosts(r) :
    posts[h].body.text = posts[d].body.text

\* C8: two runs that have both generated their tag have generated different
\* tags.
C8_TagsDiffer ==
  \A r1 \in runs : \A r2 \in runs :
    (r1 # r2 /\ local[r1].custom_text # JAbsent /\ local[r2].custom_text # JAbsent)
      => local[r1].custom_text # local[r2].custom_text

\* C9: a confirmed run that has posted both orders and has ended has had the
\* settlement poll loop started for its tag.
C9_MonitorStarted ==
  \A r \in runs :
    (pc[r] = "returned" /\ DualPosts(r) # {} /\ HedgePosts(r) # {}) =>
      (w_pc # "idle" /\ w_order_text = local[r].custom_text)

\* the lot multiplier as the claim has it: the number quanto_multiplier
\* spells when the field is there and spells one, 1.0 otherwise
C10_LotMultiplier(info) ==
  IF info.quanto_multiplier.t = "str"
     /\ FloatOfStr(info.quanto_multiplier.s).exc = "none"
  THEN FloatOfStr(info.quanto_multiplier.s).val
  ELSE Fin(1, 1)

\* the integer nearest to n / d (d > 0), the even one of two equally near
C10_Round(n, d) ==
  CHOOSE z \in {n \div d, n \div d + 1} :
    /\ 2 * Abs(n - z * d) <= d
    /\ 2 * Abs(n - z * d) = d => z % 2 = 0

C10_Expected(notional, lot) ==
  IF C10_Round(notional.n * lot.d, notional.d * lot.n) = 0 THEN 1
  ELSE C10_Round(notional.n * lot.d, notional.d * lot.n)

\* C10: for a lot multiplier that is a positive number, the sizer returns the
\* rounded quotient of notional and lot multiplier, 1 in place of 0, whatever
\* the mark price; the lot multiplier is the one quanto_multiplier spells and
\* 1.0 when the field is missing or spells no number.
C10_SizeIsRoundedQuotient ==
  (/\ sz_pc # "call"
   /\ C10_LotMultiplier(sz_info).k = "fin"
   /\ C10_LotMultiplier(sz_info).n > 0) =>
    /\ sz_pc = "returned"
    /\ sz_size = C10_Expected(sz_notional, C10_LotMultiplier(sz_info))
    /\ \A m \in MarkPrices :
         calc_contract_size_from_usdt(sz_notional, sz_info, m).size = sz_size

\* C11: the contract size a run has computed is never negative, whatever
\* amount was typed at the prompt and whatever hedge multiplier is configured.
C11_SizeNonNegative == \A r \in runs : local[r].contract_size >= 0

\* C12: every hedge order a run has posted is immediate-or-cancel, on the
\* configured contract, and its size is minus the magnitude of the size the
\* run computed: strictly negative, never zero, never positive.
C12_HedgeIsShort ==
  \A r \in runs : \A h \in HedgePosts(r) :
    /\ posts[h].body.tif = "ioc"
    /\ posts[h].body.contract = cfg.futures_contract
    /\ posts[h].body.size = -Abs(local[r].contract_size)
    /\ posts[h].body.size < 0

\* a hedge order was accepted in a run whose computed size was negative, and
\* the run returned
C12_Witness ==
  \E r \in runs : \E h \in HedgePosts(r) :
    /\ local[r].contract_size < 0
    /\ posts[h].ok
    /\ pc[r] = "returned"

\* the amount typed at the prompt of run r, as a number
C13_Amount(r) == FloatOfStr(PyStrip(input[r].amount)).val

\* amount x hedge_multiplier as a fraction
C13_Notional(r) ==
  [k |-> "fin", n |-> C13_Amount(r).n * cfg.hedge_multiplier.n,
   d |-> C13_Amount(r).d * cfg.hedge_multiplier.d]

\* the listed metadata of the configured contract
C13_Metadata ==
  CHOOSE c \in {remote.contracts[i] : i \in 1..Len(remote.contracts)} :
    c.name = cfg.futures_contract

\* two finite numbers are the same number
C13_Same(x, y) == x.k = "fin" /\ y.k = "fin" /\ x.n * y.d = y.n * x.d

C14_Malformed(field) == field.t = "str" /\ FloatOfStr(field.s).exc # "none"

\* C14: a run whose chosen offer has a malformed yield field, or whose
\* contract metadata has a malformed multiplier field, is not ended by an
\* exception of the parsing: past the selection it is at the contract fetch,
\* the ticker fetch, the gate or beyond, or was ended by a failed request.
C14_MalformedNeverAborts ==
  \A r \in runs :
    (\/ local[r].plan # <<>> /\ C14_Malformed(local[r].plan[1].apy_display)
     \/ local[r].contract_info # <<>>
          /\ C14_Malformed(local[r].contract_info[1].quanto_multiplier)) =>
      pc[r] \in {"get_contract", "get_ticker", "confirm", "custom_text",
                 "place_dual", "open_short", "returned", "TransportError"}

\* C15: a run sends at most one POST to each of the two order endpoints, a
\* run whose POST failed has ended with the error, and a run whose investment
\* POST failed has sent no hedge POST.
C15_NoRetry ==
  \A r \in runs :
    /\ Cardinality(DualPosts(r)) <= 1
    /\ Cardinality(HedgePosts(r)) <= 1
    /\ \A d \in DualPosts(r) :
         ~posts[d].ok => pc[r] = "TransportError" /\ HedgePosts(r) = {}
    /\ \A h \in HedgePosts(r) : ~posts[h].ok => pc[r] = "TransportError"

\* the investment POST of a run failed and the run has ended with the error
C15_Witness ==
  \E r \in runs : \E d \in DualPosts(r) :
    ~posts[d].ok /\ pc[r] = "TransportError"

\* C16: once the selector has been called: if no offer of the list passes
\* the filter it has raised the no-eligible-offer error, and if some offer
\* passes the filter it has returned an offer of the list.
C16_FailsIffNoneEligible ==
  sel_pc # "call" =>
    IF \E i \in 1..Len(sel_plans) : C3_Eligible(sel_plans[i])
    THEN sel_pc = "returned" /\ sel_best \in 1..Len(sel_plans)
    ELSE sel_pc = "RuntimeError"

\* C17: a second call of the selector on the list the first call returned
\* from, with the same now, returns the offer the first call returned.
C17_SelectionIdempotent ==
  sel_again # <<>> =>
    /\ sel_again[1].exc = "none"
    /\ sel_again[1].best = sel_best

\* the selector was called twice on a list of two eligible offers tied on
\* the largest yield, the records carrying the _apy of the first call
C17_Witness ==
  /\ sel_again # <<>>
  /\ Len(sel_plans) = 2
  /\ C3_Eligible(sel_plans[1]) /\ C3_Eligible(sel_plans[2])
  /\ sel_plans[1].apy_display = Str92 /\ sel_plans[2].apy_display = Str92
  /\ sel_plans[1].has_apy /\ sel_plans[2].has_apy

\* C18: every response that holds an order with the tag and status
\* SETTLEMENT_SUCCESS is the last response fetched, and the monitor returned
\* on it.
C18_ReturnsWhenSettledShown ==
  \A j \in 1..Len(w_seen) :
    w_seen[j].settled => (j = Len(w_seen) /\ w_pc = "returned")

\* C19: while no response has shown an order with the tag settled, the
\* monitor has not returned: it is about to poll, asleep before the next
\* poll, or ended by a failed request, and it has polled once per response
\* and slept once after each response.
C19_NoOtherExit ==
  (\A j \in 1..Len(w_seen) : ~w_seen[j].settled) =>
    /\ w_pc \in {"poll", "sleep", "TransportError"}
    /\ w_pc = "poll" => w_polls = Len(w_seen) /\ w_sleeps = Len(w_seen)
    /\ w_pc = "sleep" => w_polls = Len(w_seen) /\ w_sleeps = Len(w_seen) - 1
    /\ w_pc = "TransportError" => w_polls = Len(w_seen) + 1 /\ w_sleeps = Len(w_seen)

\* three polls have shown the order missing, pending and FAILED, and the
\* monitor sleeps before the next poll
C19_Witness ==
  /\ w_pc = "sleep"
  /\ w_polls >= 3
  /\ \A j \in 1..Len(w_seen) : ~w_seen[j].settled
  /\ \E j \in 1..Len(w_seen) : w_seen[j].n = 0
  /\ w_target # <<>> /\ w_target[1].status = "FAILED"

\* the configured contract is not in the listing
C20_ContractAbsent ==
  \A i \in 1..Len(remote.contracts) : remote.contracts[i].name # cfg.futures_contract

\* C20: a run against a listing without the configured contract never gets
\* to the gate and sends no POST; and a run ended by a failed request before
\* any POST was sent was ended before the gate.
C20_PreTradeFailureNoOrders ==
  \A r \in runs :
    /\ C20_ContractAbsent =>
         /\ DualPosts(r) = {} /\ HedgePosts(r) = {}
         /\ local[r].confirm = <<>>
         /\ pc[r] \in {"input_amount", "find_plan", "get_contract", "ValueError",
                       "TypeError", "RuntimeError", "TransportError"}
    /\ (pc[r] \in {"TransportError", "RuntimeError"} /\ DualPosts(r) = {}) =>
         /\ HedgePosts(r) = {}
         /\ local[r].confirm = <<>>

\* a run chose an offer, found the configured contract missing from the
\* listing and ended with the error
C20_Witness ==
  \E r \in runs :
    /\ C20_ContractAbsent
    /\ local[r].plan # <<>>
    /\ pc[r] = "RuntimeError"
    /\ posts = <<>>

====
